---- MODULE Spec2Model ----
(***************************************************************************)
(* A model of dustman's background script (src/background.js):             *)
(*   - tabsToClose, the pure decision function, with JavaScript's          *)
(*     comparison and Array.prototype.sort semantics;                      *)
(*   - autoclose and the listeners registered after loadState, as an       *)
(*     event-driven system whose promise callbacks interleave.             *)
(* One time unit of the model is 1000 ms.                                  *)
(***************************************************************************)
EXTENDS Integers, Sequences, FiniteSets, TLC

VARIABLES
    now,        \* the wall clock (new Date().getTime())
    tabs,       \* the browser's open tabs, in tabs.query order
    used,       \* the tab ids the browser has given out
    state,      \* the background script's state object
    store,      \* browser.storage.local
    alarms,     \* the pending alarms, as [name, when] records
    evals,      \* the autoclose evaluations in flight
    changes,    \* storage.onChanged events not yet delivered
    last,       \* what the last step did (a history variable)
    args,       \* the arguments of the tabsToClose call, and the engine running it
    result,     \* what that call returned
    page        \* the options page: its settings object and its form

vars == <<now, tabs, used, state, store, alarms, evals, changes, last, args, result,
          page>>

----------------------------------------------------------------------------
(* Bounds of the model *)

MaxTabs == 3
MaxTime == 3
MaxEvals == 2
MaxHistory == 2

----------------------------------------------------------------------------
(* JavaScript values *)

\* tab.lastAccessed is undefined: every arithmetic on it gives NaN
Undefined == -3
NaN == -2
Infinity == 1000000
\* a string property that is null or undefined
Absent == "<absent>"
\* the groupId of a tab outside any group (tabGroups.TAB_GROUP_ID_NONE)
NoGroup == -1

Engines == {"SpiderMonkey", "V8"}

\* a + b for a possibly undefined a
JsAdd(a, b) ==
    IF a = Undefined \/ a = NaN THEN NaN
    ELSE IF a >= Infinity THEN Infinity
    ELSE a + b

\* a < b, a > b, a >= b: false as soon as one side is NaN (undefined -> NaN)
JsLt(a, b) == a \notin {Undefined, NaN} /\ b \notin {Undefined, NaN} /\ a < b
JsGt(a, b) == a \notin {Undefined, NaN} /\ b \notin {Undefined, NaN} /\ a > b
JsGe(a, b) == a \notin {Undefined, NaN} /\ b \notin {Undefined, NaN} /\ a >= b

\* s.slice(0, n): a negative n counts from the end
Slice(s, n) ==
    LET end == IF n < 0 THEN Len(s) + n ELSE n IN
    IF end <= 0 THEN <<>>
    ELSE IF end >= Len(s) THEN s
    ELSE SubSeq(s, 1, end)

Range(s) == {s[i] : i \in DOMAIN s}

----------------------------------------------------------------------------
(* Array.prototype.sort with the comparator of tabsToClose *)

\* (t1, t2) => t1.lastAccessed > t2.lastAccessed, a boolean, which sort
\* converts to a number: true -> 1, false -> 0, never a negative number
comparefn(t1, t2) == IF JsGt(t1.lastAccessed, t2.lastAccessed) THEN 1 ELSE 0

RECURSIVE InsertItem(_, _)
\* SpiderMonkey's insertion sort (arrays shorter than 24): the item moves
\* left past every element with comparefn(element, item) > 0
InsertItem(sorted, item) ==
    IF sorted = <<>> THEN <<item>>
    ELSE LET swap == sorted[Len(sorted)] IN
         IF comparefn(swap, item) <= 0 THEN Append(sorted, item)
         ELSE Append(InsertItem(SubSeq(sorted, 1, Len(sorted) - 1), item), swap)

RECURSIVE BinarySearch(_, _, _, _)
\* V8's binary insertion: the pivot goes left of mid only when
\* comparefn(pivot, mid) < 0; left and right are 0-based
BinarySearch(sorted, pivot, left, right) ==
    IF left >= right THEN left
    ELSE LET mid == left + ((right - left) \div 2) IN
         IF comparefn(pivot, sorted[mid + 1]) < 0
         THEN BinarySearch(sorted, pivot, left, mid)
         ELSE BinarySearch(sorted, pivot, mid + 1, right)

BinaryInsert(sorted, pivot) ==
    LET pos == BinarySearch(sorted, pivot, 0, Len(sorted)) IN
    SubSeq(sorted, 1, pos) \o <<pivot>> \o SubSeq(sorted, pos + 1, Len(sorted))

RECURSIVE SortFrom(_, _, _)
SortFrom(e, sorted, rest) ==
    IF rest = <<>> THEN sorted
    ELSE SortFrom(e,
                  IF e = "V8" THEN BinaryInsert(sorted, Head(rest))
                  ELSE InsertItem(sorted, Head(rest)),
                  Tail(rest))

\* array.sort(comparefn): the comparator is not a consistent comparator
\* (it never answers "less"), so the order is the engine's
ArraySort(e, array) == SortFrom(e, <<>>, array)

----------------------------------------------------------------------------
(* tabsToClose (lib/autoclose.js) *)

RECURSIVE Unique(_, _)
\* Array.from(new Set(ids)): first occurrences, in order
Unique(ids, seen) ==
    IF ids = <<>> THEN <<>>
    ELSE IF Head(ids) \in seen THEN Unique(Tail(ids), seen)
    ELSE <<Head(ids)>> \o Unique(Tail(ids), seen \cup {Head(ids)})

windowIds(ts) == Unique([i \in DOMAIN ts |-> ts[i].windowId], {})

tabsOfWindow(ts, windowId) ==
    LET InWindow(tab) == tab.windowId = windowId IN SelectSeq(ts, InWindow)

unpinnedTabs(wtabs) ==
    LET Unpinned(tab) == ~tab.pinned IN SelectSeq(wtabs, Unpinned)

numTabsToCloseAll(wtabs, settings) == Len(wtabs) - settings.minTabsCount

numTabsToClose(wtabs, settings) ==
    Len(unpinnedTabs(wtabs)) - settings.minTabsCount

closeableAudible(tab, settings) ==
    IF JsGe(tab.lastAccessed, Infinity) THEN FALSE
    ELSE IF settings.excludeTabsInGroups /\ tab.groupId # Undefined
            /\ tab.groupId # NoGroup THEN FALSE
    ELSE TRUE

\* the filter of closeableTabs
closeable(tab, settings) ==
    IF tab.audible = TRUE \/ JsGe(tab.lastAccessed, Infinity) THEN FALSE
    ELSE IF settings.excludeTabsInGroups /\ tab.groupId # Undefined
            /\ tab.groupId # NoGroup THEN FALSE
    ELSE TRUE

closeableTabs(e, wtabs, settings) ==
    LET Keep(tab) == closeable(tab, settings) IN
    ArraySort(e, SelectSeq(unpinnedTabs(wtabs), Keep))

nowCloseableLe(tab, t, settings) ==
    ~JsGt(JsAdd(tab.lastAccessed, settings.minInactiveMilliseconds), t)
    /\ tab.lastAccessed # Undefined

laterCloseableGt(tab, t, settings) ==
    JsGt(JsAdd(tab.lastAccessed, settings.minInactiveMilliseconds), t)

nowCloseable(tab, t, settings) ==
    JsLt(JsAdd(tab.lastAccessed, settings.minInactiveMilliseconds), t)

laterCloseable(tab, t, settings) ==
    JsGe(JsAdd(tab.lastAccessed, settings.minInactiveMilliseconds), t)

\* one element of perWindowResults
perWindowResult(e, t, settings, wtabs) ==
    LET n == numTabsToClose(wtabs, settings)
        cand == closeableTabs(e, wtabs, settings)
        Now(tab) == nowCloseable(tab, t, settings)
        Later(tab) == laterCloseable(tab, t, settings)
        nowCloseableTabs == SelectSeq(cand, Now)
        onlyLaterCloseableTabs == SelectSeq(cand, Later)
        toClose == Slice(nowCloseableTabs, n)
    IN  IF n <= 0 THEN [tabsToClose |-> <<>>, nextCheck |-> Infinity]
        ELSE [tabsToClose |-> toClose,
              nextCheck |->
                  IF Len(toClose) = n \/ Len(onlyLaterCloseableTabs) = 0
                  THEN Infinity
                  ELSE JsAdd(onlyLaterCloseableTabs[1].lastAccessed,
                             settings.minInactiveMilliseconds)]

perWindowResults(e, t, settings, ts) ==
    LET ids == windowIds(ts) IN
    [i \in DOMAIN ids |-> perWindowResult(e, t, settings, tabsOfWindow(ts, ids[i]))]

RECURSIVE Concat(_)
Concat(ss) == IF ss = <<>> THEN <<>> ELSE Head(ss) \o Concat(Tail(ss))

RECURSIVE MathMin(_)
\* Math.min.apply(null, xs): Infinity for no argument
MathMin(xs) ==
    IF xs = <<>> THEN Infinity
    ELSE LET m == MathMin(Tail(xs)) IN IF Head(xs) < m THEN Head(xs) ELSE m

tabsToClose(e, t, settings, ts) ==
    LET res == perWindowResults(e, t, settings, ts) IN
    [tabsToClose |-> Concat([i \in DOMAIN res |-> res[i].tabsToClose]),
     nextCheck |-> MathMin([i \in DOMAIN res |-> res[i].nextCheck])]

----------------------------------------------------------------------------
(* Tabs and settings *)

\* what the page of tab id shows: two web pages, a private web page, an
\* internal page, and tabs whose title and url the extension may not read
TabContent(id) ==
    CASE id = 1 -> [title |-> "One", url |-> "https://one.example/",
                    favIconUrl |-> "https://one.example/icon", incognito |-> FALSE]
      [] id = 2 -> [title |-> "Two", url |-> "https://two.example/",
                    favIconUrl |-> Absent, incognito |-> FALSE]
      [] id = 3 -> [title |-> "Three", url |-> "https://three.example/",
                    favIconUrl |-> Absent, incognito |-> TRUE]
      [] id = 4 -> [title |-> "New Tab", url |-> "about:blank",
                    favIconUrl |-> Absent, incognito |-> FALSE]
      [] OTHER  -> [title |-> Absent, url |-> Absent,
                    favIconUrl |-> Absent, incognito |-> FALSE]

Tab(id, windowId, p) ==
    [id |-> id, windowId |-> windowId, lastAccessed |-> p.lastAccessed,
     pinned |-> p.pinned, audible |-> p.audible, groupId |-> p.groupId,
     title |-> TabContent(id).title, url |-> TabContent(id).url,
     favIconUrl |-> TabContent(id).favIconUrl,
     incognito |-> TabContent(id).incognito]

Profile(la, pinned, audible, groupId) ==
    [lastAccessed |-> la, pinned |-> pinned, audible |-> audible, groupId |-> groupId]

Settings(minInactive, minTabs, maxHistory, clearOnExit, excludeGroups) ==
    [minInactiveMilliseconds |-> minInactive, minTabsCount |-> minTabs,
     maxHistorySize |-> maxHistory, clearHistoryOnExit |-> clearOnExit,
     excludeTabsInGroups |-> excludeGroups]

----------------------------------------------------------------------------
(* The decision function on its own: Init draws (now, settings, tabs) and  *)
(* the engine, Decide applies tabsToClose.                                 *)

DecideNow == 3

\* with now = 3 and a threshold of 1: closeable now (0, 1), at the
\* boundary (2), later (3), unknown, not finite; and one exclusion at a time
DecideProfiles ==
    {Profile(la, FALSE, FALSE, NoGroup) : la \in {0, 1, 2, 3, Undefined, Infinity}}
    \cup {Profile(0, TRUE, FALSE, NoGroup)}
    \cup {Profile(la, FALSE, TRUE, NoGroup) : la \in {0, 2}}
    \cup {Profile(la, FALSE, FALSE, 1) : la \in {0, 2}}

DecideSettings ==
    {Settings(1, minTabs, 0, TRUE, excl) : minTabs \in {1, 2}, excl \in BOOLEAN}

\* tabs.query answers window by window: tabs 1..split are in window 1,
\* the others in window 2
DecideTabs(n, split, f) ==
    [i \in 1..n |-> Tab(i, IF i <= split THEN 1 ELSE 2, f[i])]

NoArgs == [engine |-> "V8", now |-> 0, settings |-> Settings(1, 1, 0, TRUE, FALSE), tabs |-> <<>>]
NoResult == [done |-> FALSE, tabsToClose |-> <<>>, nextCheck |-> Infinity]

\* the options page is not open
NoPage == [open |-> FALSE]

NoStep == [op |-> "none", closed |-> {}, rejected |-> FALSE, wrote |-> FALSE]

Idle ==
    /\ now = 0
    /\ tabs = <<>>
    /\ used = {}
    /\ state = [settings |-> NoArgs.settings, history |-> <<>>,
                autocloseTimeoutId |-> 0, paused |-> FALSE]
    /\ store = [settings |-> NoArgs.settings]
    /\ alarms = {}
    /\ evals = <<>>
    /\ changes = <<>>
    /\ last = NoStep
    /\ page = NoPage

DecideInit ==
    /\ \E e \in Engines, settings \in DecideSettings, n \in 0..MaxTabs :
          \E split \in (IF n = 0 THEN {0} ELSE 1..n), f \in [1..n -> DecideProfiles] :
              args = [engine |-> e, now |-> DecideNow, settings |-> settings,
                      tabs |-> DecideTabs(n, split, f)]
    /\ result = NoResult
    /\ Idle

Decide ==
    /\ ~result.done
    /\ result' = [done |-> TRUE] @@ tabsToClose(args.engine, args.now, args.settings, args.tabs)
    /\ UNCHANGED <<now, tabs, used, state, store, alarms, evals, changes, last, args, page>>

DecideNext == Decide

SpecDecide == DecideInit /\ [][DecideNext]_vars

----------------------------------------------------------------------------
(* Properties of one tabsToClose call, read off args and result *)

Min(a, b) == IF a < b THEN a ELSE b

ArgWindows == {args.tabs[i].windowId : i \in DOMAIN args.tabs}
ArgTabs == Range(args.tabs)
ClosedIds == {result.tabsToClose[i].id : i \in DOMAIN result.tabsToClose}

\* the unpinned tabs of window w in the input, and how many entries of the
\* close-set are tabs of w
UnpinnedCount(w) ==
    Cardinality({i \in DOMAIN args.tabs :
                    args.tabs[i].windowId = w /\ ~args.tabs[i].pinned})
ClosedCount(w) ==
    Cardinality({i \in DOMAIN result.tabsToClose :
                    result.tabsToClose[i].windowId = w})

\* lastAccessed + minInactiveMilliseconds of a tab whose lastAccessed is known
Threshold(tab) == tab.lastAccessed + args.settings.minInactiveMilliseconds

\* a candidate of the spec's eligibility filter, stated on the tab's fields
IsCandidate(tab) ==
    /\ ~tab.pinned
    /\ ~tab.audible
    /\ tab.lastAccessed # Undefined
    /\ tab.lastAccessed < Infinity
    /\ args.settings.excludeTabsInGroups => tab.groupId = NoGroup

PastThreshold(tab) == IsCandidate(tab) /\ Threshold(tab) < args.now

\* C1 (floor invariant): in every window of the input, the unpinned tabs
\* minus the tabs of the window in the close-set are at least
\* min(minTabsCount, unpinned tabs); no pinned tab is in the close-set.
C1_Floor ==
    result.done =>
        /\ \A w \in ArgWindows :
              UnpinnedCount(w) - ClosedCount(w)
                  >= Min(args.settings.minTabsCount, UnpinnedCount(w))
        /\ \A tab \in ArgTabs : tab.pinned => tab.id \notin ClosedIds

\* a window with a pinned tab past its threshold closes tabs down to
\* exactly minTabsCount unpinned tabs although more are past the threshold
C1_Witness ==
    /\ result.done
    /\ \E w \in ArgWindows :
          /\ ClosedCount(w) > 0
          /\ UnpinnedCount(w) - ClosedCount(w) = args.settings.minTabsCount
          /\ \E tab \in ArgTabs :
                tab.windowId = w /\ tab.pinned /\ Threshold(tab) < args.now
          /\ \E tab \in ArgTabs :
                tab.windowId = w /\ PastThreshold(tab) /\ tab.id \notin ClosedIds

\* C2 (monotonic threshold): a tab with lastAccessed + minInactiveMilliseconds
\* >= now is never in the close-set, the boundary (= now) included.
C2_Threshold ==
    result.done =>
        \A tab \in ArgTabs :
            (tab.lastAccessed # Undefined /\ Threshold(tab) >= args.now)
                => tab.id \notin ClosedIds

\* a candidate exactly at the boundary stays open in a window that closes
\* another tab and has budget left for it
C2_Witness ==
    /\ result.done
    /\ \E tab \in ArgTabs :
          /\ IsCandidate(tab)
          /\ Threshold(tab) = args.now
          /\ tab.id \notin ClosedIds
          /\ ClosedCount(tab.windowId) > 0
          /\ UnpinnedCount(tab.windowId) - ClosedCount(tab.windowId)
                 > args.settings.minTabsCount

\* C3 (ascending-inactivity priority): of two candidates of one window that
\* are both past the threshold, a closed one never has a larger lastAccessed
\* than one left open, and with equal lastAccessed the closed one comes
\* first in the input.
C3_Priority ==
    result.done =>
        \A i, j \in DOMAIN args.tabs :
            LET A == args.tabs[i]
                B == args.tabs[j]
            IN  (/\ A.windowId = B.windowId
                 /\ PastThreshold(A) /\ PastThreshold(B)
                 /\ A.id \in ClosedIds /\ B.id \notin ClosedIds)
                => (A.lastAccessed < B.lastAccessed
                    \/ (A.lastAccessed = B.lastAccessed /\ i < j))

\* the budget of window w that the close-set leaves unused
BudgetLeft(w) ==
    UnpinnedCount(w) - args.settings.minTabsCount - ClosedCount(w)

\* C4 (next-wake tightness): when nextCheck is finite, no tab has its
\* threshold in [now, nextCheck), and some tab has its threshold exactly at
\* nextCheck.  The tabs are read as the ones a wake is computed for, the
\* candidates of the windows whose budget the close-set leaves unused: the
\* statement over every tab of the input is stronger.
C4_NextWake ==
    (result.done /\ result.nextCheck < Infinity) =>
        /\ \A tab \in ArgTabs :
              (IsCandidate(tab) /\ BudgetLeft(tab.windowId) > 0) =>
                  ~(args.now <= Threshold(tab) /\ Threshold(tab) < result.nextCheck)
        /\ \E tab \in ArgTabs :
              tab.lastAccessed # Undefined /\ Threshold(tab) = result.nextCheck

\* a tab the eligibility filter excludes
Excluded(tab) ==
    \/ tab.pinned
    \/ tab.audible
    \/ tab.lastAccessed = Undefined
    \/ tab.lastAccessed >= Infinity
    \/ args.settings.excludeTabsInGroups /\ tab.groupId # NoGroup

\* C13 (eligibility exclusions): a tab that is pinned, audible, of unknown
\* or non-finite lastAccessed, or in a group while excludeTabsInGroups is
\* set, is never in the close-set, and a finite nextCheck is the threshold,
\* not before now, of a tab that is none of these.
C13_Exclusions ==
    result.done =>
        /\ \A tab \in ArgTabs : Excluded(tab) => tab.id \notin ClosedIds
        /\ result.nextCheck < Infinity =>
              \E tab \in ArgTabs :
                  /\ ~Excluded(tab)
                  /\ Threshold(tab) = result.nextCheck
                  /\ Threshold(tab) >= args.now

\* a window closes a tab and has budget left; an audible or grouped tab of
\* it crosses its threshold before the returned nextCheck, and another of
\* its excluded tabs is past its threshold and stays open
C13_Witness ==
    /\ result.done
    /\ result.nextCheck < Infinity
    /\ \E tab \in ArgTabs :
          /\ ~tab.pinned /\ (tab.audible \/ tab.groupId # NoGroup)
          /\ Excluded(tab)
          /\ args.now <= Threshold(tab) /\ Threshold(tab) < result.nextCheck
          /\ ClosedCount(tab.windowId) > 0
          /\ BudgetLeft(tab.windowId) > 0

\* the budget of window w, its candidates past the threshold, and whether
\* it has a candidate that crosses its threshold now or later
Budget(w) == UnpinnedCount(w) - args.settings.minTabsCount
PastCount(w) ==
    Cardinality({i \in DOMAIN args.tabs :
                    args.tabs[i].windowId = w /\ PastThreshold(args.tabs[i])})
HasLater(w) ==
    \E tab \in ArgTabs :
        tab.windowId = w /\ IsCandidate(tab) /\ Threshold(tab) >= args.now

\* the nextCheck that window w contributes
WindowNextCheck(w) ==
    perWindowResult(args.engine, args.now, args.settings,
                    tabsOfWindow(args.tabs, w)).nextCheck

\* C16 (no missed closes): a window with budget > 0 has exactly
\* min(budget, candidates past the threshold) tabs in the close-set, and
\* contributes nextCheck = Infinity exactly when the close-set takes the
\* whole budget or the window has no later-closeable candidate; the
\* returned nextCheck is Infinity exactly when every such window's is.
C16_NoMissedCloses ==
    result.done =>
        /\ \A w \in ArgWindows :
              Budget(w) > 0 =>
                  /\ ClosedCount(w) = Min(Budget(w), PastCount(w))
                  /\ WindowNextCheck(w) = Infinity
                        <=> (ClosedCount(w) = Budget(w) \/ ~HasLater(w))
        /\ result.nextCheck = Infinity
              <=> \A w \in ArgWindows :
                      Budget(w) > 0 => (ClosedCount(w) = Budget(w) \/ ~HasLater(w))

\* a window closes all its candidates past the threshold, fewer than its
\* budget, and its only later candidate is exactly at the boundary: the
\* wake is scheduled
C16_Witness ==
    /\ result.done
    /\ \E w \in ArgWindows :
          /\ ClosedCount(w) > 0
          /\ ClosedCount(w) = PastCount(w)
          /\ ClosedCount(w) < Budget(w)
          /\ HasLater(w)
          /\ \A tab \in ArgTabs :
                (tab.windowId = w /\ IsCandidate(tab) /\ Threshold(tab) >= args.now)
                    => Threshold(tab) = args.now
          /\ result.nextCheck = args.now

----------------------------------------------------------------------------
(* lib/state.js *)

defaultSettings == Settings(1200, 5, 1000, TRUE, FALSE)

Restrict(f, keys) == [k \in keys |-> f[k]]

\* browser.storage.local.set({key: value}) and .remove(key)
StorageSet(sto, key, value) == (key :> value) @@ sto
StorageRemove(sto, key) == Restrict(sto, DOMAIN sto \ {key})

\* a store whose browser.storage.local.get() is rejected
ReadError == [error |-> "read"]

\* loadState: a stored object is a record of the keys it has
loadState(sto) ==
    LET got == IF sto = ReadError THEN [settings |-> defaultSettings] ELSE sto
        s0 == IF "settings" \in DOMAIN got THEN got.settings ELSE defaultSettings
        h0 == IF "history" \in DOMAIN got THEN got.history ELSE <<>>
        s1 == IF "saveClosedPages" \in DOMAIN s0
              THEN ("maxHistorySize" :>
                        (IF s0.saveClosedPages = TRUE
                         THEN defaultSettings.maxHistorySize ELSE 0))
                   @@ Restrict(s0, DOMAIN s0 \ {"saveClosedPages"})
              ELSE s0
        s2 == IF "clearHistoryOnExit" \notin DOMAIN s1
              THEN ("clearHistoryOnExit" :> defaultSettings.clearHistoryOnExit) @@ s1
              ELSE s1
        s3 == IF "excludeTabsInGroups" \notin DOMAIN s2
              THEN ("excludeTabsInGroups" :> defaultSettings.excludeTabsInGroups) @@ s2
              ELSE s2
    IN  [settings |-> s3, history |-> h0, autocloseTimeoutId |-> 0, paused |-> FALSE]

persistSettings(sto, settings) == StorageSet(sto, "settings", settings)

persistHistoryAlways(st, sto) == StorageSet(sto, "history", st.history)

persistHistory(st, sto) ==
    IF st.settings.clearHistoryOnExit = FALSE
    THEN StorageSet(sto, "history", st.history)
    ELSE StorageRemove(sto, "history")

----------------------------------------------------------------------------
(* saveableTab and the history *)

\* new URL(url).protocol of the urls of the model
Protocol(url) ==
    CASE url = "about:blank" -> "about:"
      [] url = "chrome://newtab/" -> "chrome:"
      [] url = "file:///tmp/notes.txt" -> "file:"
      [] OTHER -> "https:"

saveableTabAnyMode(tab) ==
    IF tab.title = Absent \/ tab.url = Absent THEN FALSE
    ELSE IF Protocol(tab.url) \in {"chrome:", "javascript:", "data:", "file:", "about:"}
    THEN FALSE
    ELSE TRUE

saveableTab(tab) ==
    IF tab.title = Absent \/ tab.url = Absent THEN FALSE
    ELSE IF Protocol(tab.url) \in {"chrome:", "javascript:", "data:", "file:", "about:"}
    THEN FALSE
    ELSE IF tab.incognito = TRUE THEN FALSE
    ELSE TRUE

ClosedPageInfo(tab) ==
    [title |-> tab.title, url |-> tab.url, favIconUrl |-> tab.favIconUrl]

\* the then-callback of browser.tabs.remove in autoclose: the new history
accumulateAppended(st, toClose) ==
    LET saved == SelectSeq(toClose, saveableTab)
        history == [i \in DOMAIN saved |-> ClosedPageInfo(saved[i])]
    IN  IF st.settings.maxHistorySize > 0
        THEN Slice(st.history \o history, st.settings.maxHistorySize)
        ELSE st.history

accumulate(st, toClose) ==
    LET saved == SelectSeq(toClose, saveableTab)
        history == [i \in DOMAIN saved |-> ClosedPageInfo(saved[i])]
    IN  IF st.settings.maxHistorySize > 0
        THEN Slice(history \o st.history, st.settings.maxHistorySize)
        ELSE st.history

----------------------------------------------------------------------------
(* The browser: alarms and tabs *)

\* the 1000 ms added to nextCheck, in time units
Tolerance == 1

AlarmsClear(as, name) == {a \in as : a.name # name}

\* an alarm replaces the pending alarm of the same name
AlarmsCreate(as, name, when) ==
    AlarmsClear(as, name) \cup {[name |-> name, when |-> when]}

\* the ids of the tabs of a run: a browser never gives an id twice
TabIds == {1, 2, 3, 4}
OpenIds == {tabs[i].id : i \in DOMAIN tabs}

\* tabs.query order: window by window, a window's tabs by position
Ordered(ts) == tabsOfWindow(ts, 1) \o tabsOfWindow(ts, 2)

WithoutTabs(ts, ids) ==
    LET Stays(tab) == tab.id \notin ids IN SelectSeq(ts, Stays)

RECURSIVE ValidPrefix(_, _)
\* tabs.remove(ids) closes the tabs in order and fails at the first id
\* that is not an open tab: the ids it closes
ValidPrefix(ids, open) ==
    IF ids = <<>> \/ Head(ids) \notin open THEN {}
    ELSE {Head(ids)} \cup ValidPrefix(Tail(ids), open)

----------------------------------------------------------------------------
(* autoclose and the listeners of the background script *)

\* wrote: the step left a history in browser.storage.local by a storage call
Step(op, ids, rejected) ==
    [op |-> op, closed |-> ids, rejected |-> rejected, wrote |-> FALSE]

OtherStep == Step("other", {}, FALSE)

\* wake: the evaluation was started by the 'autoclose' alarm
NewEval == [pc |-> "query", toClose |-> <<>>, wake |-> FALSE]

\* the synchronous part of autoclose(state): the alarm is cleared, and
\* unless paused a tabs.query is sent whose answer starts the evaluation
autocloseEvals(st, es) == IF st.paused THEN es ELSE Append(es, NewEval)
autocloseAlarmsKept(as) == as
autocloseAlarms(as) == AlarmsClear(as, "autoclose")

CanStart == Len(evals) < MaxEvals

\* the alarm of an evaluation whose nextCheck is finite
wakeAlarms(as, r) ==
    IF r.nextCheck < Infinity
    THEN AlarmsCreate(as, "autoclose", r.nextCheck + Tolerance)
    ELSE as

\* the answers of the browser arrive in the order of the calls: the
\* evaluation whose tabs.query is answered is the oldest one waiting for it
FirstQuery ==
    CHOOSE i \in DOMAIN evals :
        evals[i].pc = "query" /\ \A j \in 1..(i - 1) : evals[j].pc # "query"

\* tabs.query resolves: tabsToClose runs on the answer (on either engine),
\* the wake alarm is created and tabs.remove is sent
QueryResolved ==
    /\ \E i \in DOMAIN evals : evals[i].pc = "query"
    /\ \E e \in Engines :
          LET r == tabsToClose(e, now, state.settings, tabs) IN
          /\ alarms' = wakeAlarms(alarms, r)
          /\ evals' = [evals EXCEPT ![FirstQuery].pc = "remove",
                                    ![FirstQuery].toClose = r.tabsToClose]
    /\ last' = Step("query", {}, FALSE)
    /\ UNCHANGED <<now, tabs, used, state, store, changes, args, result, page>>

\* tabs.remove of the oldest evaluation is carried out and settles: on
\* success the callback accumulates the history and persists it
RemoveResolved ==
    /\ evals # <<>> /\ Head(evals).pc = "remove"
    /\ LET toClose == Head(evals).toClose
           ids == [i \in DOMAIN toClose |-> toClose[i].id]
           gone == ValidPrefix(ids, OpenIds)
           rejected == \E i \in DOMAIN ids : ids[i] \notin OpenIds
           st == [state EXCEPT !.history = accumulate(state, toClose)]
           persists == ~rejected /\ state.settings.maxHistorySize > 0
                           /\ state.settings.clearHistoryOnExit = FALSE
       IN  /\ tabs' = WithoutTabs(tabs, gone)
           /\ state' = IF rejected THEN state ELSE st
           /\ store' = IF persists THEN persistHistory(st, store) ELSE store
           /\ last' = [Step("remove", gone, rejected) EXCEPT
                           !.wrote = persists /\ "history" \in DOMAIN store']
    /\ evals' = Tail(evals)
    /\ UNCHANGED <<now, used, alarms, changes, args, result, page>>

\* browser.action.onClicked
ActionClicked ==
    /\ CanStart
    /\ state' = [state EXCEPT !.paused = ~state.paused]
    /\ alarms' = autocloseAlarms(alarms)
    /\ evals' = autocloseEvals(state', evals)
    /\ last' = Step("click", {}, FALSE)
    /\ UNCHANGED <<now, tabs, used, store, changes, args, result, page>>

\* a tab is opened; browser.tabs.onCreated
TabCreated ==
    /\ CanStart
    /\ \E id \in TabIds \ used :
          /\ tabs' = Ordered(Append(tabs, Tab(id, 1, Profile(now, FALSE, FALSE, NoGroup))))
          /\ used' = used \cup {id}
    /\ alarms' = autocloseAlarms(alarms)
    /\ evals' = autocloseEvals(state, evals)
    /\ last' = Step("created", {}, FALSE)
    /\ UNCHANGED <<now, state, store, changes, args, result, page>>

\* the evaluations after the first n are marked as started by the alarm
Woken(es, n) ==
    [i \in DOMAIN es |-> IF i > n THEN [es[i] EXCEPT !.wake = TRUE] ELSE es[i]]

\* the 'autoclose' alarm goes off (alarms may be late); browser.alarms.onAlarm
AlarmFired ==
    /\ CanStart
    /\ \E a \in alarms :
          /\ a.when <= now
          /\ alarms' = autocloseAlarms(alarms \ {a})
          /\ evals' = IF a.name = "autoclose"
                      THEN Woken(autocloseEvals(state, evals), Len(evals))
                      ELSE evals
    /\ last' = Step("alarm", {}, FALSE)
    /\ UNCHANGED <<now, tabs, used, state, store, changes, args, result, page>>

\* the options page saves an edit of max-history-size or of
\* clear-history-on-exit (options.js); the change event is sent
SettingsEdited ==
    /\ Len(changes) < 1
    /\ \E settings \in
            {[loadState(store).settings EXCEPT !.maxHistorySize = c] :
                c \in 0..MaxHistory}
            \cup {[loadState(store).settings EXCEPT !.clearHistoryOnExit = b] :
                     b \in BOOLEAN} :
          /\ settings # store.settings
          /\ store' = persistSettings(store, settings)
          /\ changes' = Append(changes, settings)
    /\ last' = OtherStep
    /\ UNCHANGED <<now, tabs, used, state, alarms, evals, args, result, page>>

\* browser.storage.onChanged with 'settings' in changes
StorageChanged ==
    /\ CanStart
    /\ changes # <<>>
    /\ LET settings == Head(changes)
           st == [state EXCEPT !.settings = settings,
                               !.history = Slice(state.history, settings.maxHistorySize)]
       IN  /\ state' = st
           /\ store' = persistHistory(st, store)
           /\ evals' = autocloseEvals(st, evals)
    /\ alarms' = autocloseAlarms(alarms)
    /\ changes' = Tail(changes)
    /\ last' = [Step("settings", {}, FALSE) EXCEPT
                    !.wrote = "history" \in DOMAIN store']
    /\ UNCHANGED <<now, tabs, used, args, result, page>>

\* the background script is stopped and started again: loadState, then
\* the listeners are registered and autoclose runs
Restart ==
    /\ last.op # "load"
    /\ state' = loadState(store)
    /\ alarms' = autocloseAlarms(alarms)
    /\ evals' = autocloseEvals(state', <<>>)
    /\ changes' = <<>>
    /\ last' = Step("load", {}, FALSE)
    /\ UNCHANGED <<now, tabs, used, store, args, result, page>>

\* the user closes a tab: the script has no listener for it
TabRemoved ==
    /\ \E i \in DOMAIN tabs : tabs' = WithoutTabs(tabs, {tabs[i].id})
    /\ last' = OtherStep
    /\ UNCHANGED <<now, used, state, store, alarms, evals, changes, args, result, page>>

Tick ==
    /\ now < MaxTime
    /\ now' = now + 1
    /\ last' = OtherStep
    /\ UNCHANGED <<tabs, used, state, store, alarms, evals, changes, args, result, page>>

\* the stored objects the script starts from: settings saved by the
\* options page (keeping one tab or two), or by a version that had
\* saveClosedPages
InitStores ==
    {[settings |-> Settings(1, 1, 2, clearOnExit, FALSE)] : clearOnExit \in BOOLEAN}
    \cup {[settings |-> Settings(1, 2, 2, TRUE, FALSE)]}
    \cup {[settings |-> [minInactiveMilliseconds |-> 1, minTabsCount |-> 1,
                         saveClosedPages |-> FALSE]]}

\* the tabs open when the script starts, at time 1: two that were last
\* looked at a time unit ago and the one in front
InitTabs == [id \in 1..3 |->
                Tab(id, 1, Profile(IF id = 3 THEN 1 ELSE 0, FALSE, FALSE, NoGroup))]

Init ==
    /\ now = 1
    /\ tabs = InitTabs
    /\ used = {1, 2, 3}
    /\ store \in InitStores
    /\ state = loadState(store)
    /\ alarms = {}
    /\ evals = autocloseEvals(state, <<>>)
    /\ changes = <<>>
    /\ last = Step("load", {}, FALSE)
    /\ args = NoArgs
    /\ result = NoResult
    /\ page = NoPage

Next ==
    \/ QueryResolved
    \/ RemoveResolved
    \/ ActionClicked
    \/ TabCreated
    \/ AlarmFired
    \/ SettingsEdited
    \/ StorageChanged
    \/ Restart
    \/ Tick

Spec == Init /\ [][Next]_vars

----------------------------------------------------------------------------
(* The script with the tabs changing under it: the user opens tabs early   *)
(* in the run and closes tabs at any time, then nothing more happens but   *)
(* the browser answering, time passing and alarms going off.               *)

\* tabs opened after this moment would cross their threshold after MaxTime
Quiet == now >= MaxTime - 1

TabCreatedEarly == ~Quiet /\ TabCreated

TabsNext ==
    \/ QueryResolved
    \/ RemoveResolved
    \/ AlarmFired
    \/ TabCreatedEarly
    \/ TabRemoved
    \/ Tick

\* the close-sets an answer may lead to: open tabs, each once, in any order
CloseSets ==
    {c \in UNION {[1..n -> Range(tabs)] : n \in 0..Len(tabs)} :
        \A i, j \in DOMAIN c : c[i] = c[j] => i = j}

\* the steps of QueryResolved, stated without computing the answer: the
\* oldest tabs.query waiting is answered, some close-set is sent to
\* tabs.remove and the alarm is created or not
QueryAnswered ==
    /\ \E i \in DOMAIN evals : evals[i].pc = "query"
    /\ last' = Step("query", {}, FALSE)
    /\ evals' \in {[evals EXCEPT ![FirstQuery].pc = "remove",
                                 ![FirstQuery].toClose = c] : c \in CloseSets}
    /\ alarms' \in {alarms}
                   \cup {AlarmsCreate(alarms, "autoclose", t) : t \in 0..(MaxTime + 2)}
    /\ UNCHANGED <<now, tabs, used, state, store, changes, args, result, page>>

\* the browser settles every promise, time passes, and a due alarm goes off
SpecTabs ==
    /\ Init
    /\ [][TabsNext]_vars
    /\ WF_vars(QueryAnswered)
    /\ WF_vars(RemoveResolved)
    /\ WF_vars(AlarmFired)
    /\ WF_vars(Tick)

----------------------------------------------------------------------------
(* The options page (options.js): the form fields and their change         *)
(* listeners.  An input's value is a sequence of characters.               *)

\* a number, or NaN
Number(v) == [nan |-> FALSE, value |-> v]
NotANumber == [nan |-> TRUE, value |-> 0]
isNaNNever(x) == FALSE
isNaN(x) == x.nan

DigitChars == <<"0", "1", "2", "3", "4", "5", "6", "7", "8", "9">>
IsDigit(c) == \E d \in DOMAIN DigitChars : DigitChars[d] = c
DigitValue(c) == (CHOOSE d \in DOMAIN DigitChars : DigitChars[d] = c) - 1

RECURSIVE DigitsLen(_)
\* how many digits the string starts with
DigitsLen(str) ==
    IF str = <<>> \/ ~IsDigit(Head(str)) THEN 0 ELSE 1 + DigitsLen(Tail(str))

RECURSIVE Decimal(_, _)
Decimal(str, acc) ==
    IF str = <<>> THEN acc ELSE Decimal(Tail(str), 10 * acc + DigitValue(Head(str)))

Signed(str) == str # <<>> /\ Head(str) \in {"-", "+"}
Unsigned(str) == IF Signed(str) THEN Tail(str) ELSE str
Sign(str) == IF str # <<>> /\ Head(str) = "-" THEN -1 ELSE 1

\* parseInt(str): the digits the string starts with after its sign, NaN
\* when there is none; what follows the digits is ignored
parseInt(str) ==
    LET body == Unsigned(str)
        n == DigitsLen(body)
    IN  IF n = 0 THEN NotANumber
        ELSE Number(Sign(str) * Decimal(SubSeq(body, 1, n), 0))

\* parseFloat(str), in tenths: the digits after the sign and one digit of
\* the fraction (the inputs of the model have no more)
parseFloat(str) ==
    LET body == Unsigned(str)
        n == DigitsLen(body)
        rest == SubSeq(body, n + 1, Len(body))
        fraction == Len(rest) >= 2 /\ rest[1] = "." /\ IsDigit(rest[2])
    IN  IF n = 0 /\ ~fraction THEN NotANumber
        ELSE Number(Sign(str) * (10 * Decimal(SubSeq(body, 1, n), 0)
                                    + (IF fraction THEN DigitValue(rest[2]) ELSE 0)))

\* s * 1000 * 60 milliseconds in time units, for s in tenths of a minute
MinutesToTime(s) == s * 6

NumberFields == {"min-inactive-minutes", "min-tabs-count", "max-history-size"}

\* loadState().then(state => initializeSettingsUi(state.settings))
OpenPage(sto) ==
    [open |-> TRUE,
     settings |-> loadState(sto).settings,
     invalid |-> [f \in NumberFields |-> FALSE],
     edit |-> [field |-> "none", value |-> <<>>]]

\* what the user may have typed
OptionInputs ==
    {<<>>, <<"a", "b">>, <<"-", "1">>, <<"0">>, <<"1">>, <<"2">>,
     <<"1", ".", "5">>, <<"0", ".", "5">>, <<"2", "x">>}

\* a change listener has run: a rejected edit of a number field is
\* flagged, an accepted one is stored in the settings object
Edited(field, str, ok, settings) ==
    [page EXCEPT !.invalid = IF field \in NumberFields
                             THEN [@ EXCEPT ![field] = ~ok] ELSE @,
                 !.settings = IF ok THEN settings ELSE @,
                 !.edit = [field |-> field, value |-> str]]

MinInactiveMinutesChanged ==
    /\ page.open
    /\ \E str \in OptionInputs :
          LET s == parseFloat(str)
              ok == ~(isNaN(s) \/ s.value < 0)
              settings == [page.settings EXCEPT
                              !.minInactiveMilliseconds = MinutesToTime(s.value)]
          IN  /\ page' = Edited("min-inactive-minutes", str, ok, settings)
              /\ store' = IF ok THEN persistSettings(store, settings) ELSE store
    /\ UNCHANGED <<now, tabs, used, state, alarms, evals, changes, last, args, result>>

MinTabsCountChanged ==
    /\ page.open
    /\ \E str \in OptionInputs :
          LET c == parseInt(str)
              ok == ~(isNaN(c) \/ c.value <= 0)
              settings == [page.settings EXCEPT !.minTabsCount = c.value]
          IN  /\ page' = Edited("min-tabs-count", str, ok, settings)
              /\ store' = IF ok THEN persistSettings(store, settings) ELSE store
    /\ UNCHANGED <<now, tabs, used, state, alarms, evals, changes, last, args, result>>

MaxHistorySizeChanged ==
    /\ page.open
    /\ \E str \in OptionInputs :
          LET c == parseInt(str)
              ok == ~(isNaN(c) \/ c.value < 0)
              settings == [page.settings EXCEPT !.maxHistorySize = c.value]
          IN  /\ page' = Edited("max-history-size", str, ok, settings)
              /\ store' = IF ok THEN persistSettings(store, settings) ELSE store
    /\ UNCHANGED <<now, tabs, used, state, alarms, evals, changes, last, args, result>>

ClearHistoryOnExitChanged ==
    /\ page.open
    /\ \E checked \in BOOLEAN :
          LET settings == [page.settings EXCEPT !.clearHistoryOnExit = checked]
          IN  /\ page' = Edited("clear-history-on-exit", <<>>, TRUE, settings)
              /\ store' = persistSettings(store, settings)
    /\ UNCHANGED <<now, tabs, used, state, alarms, evals, changes, last, args, result>>

ExcludeTabsInGroupsChanged ==
    /\ page.open
    /\ \E checked \in BOOLEAN :
          LET settings == [page.settings EXCEPT !.excludeTabsInGroups = checked]
          IN  /\ page' = Edited("exclude-tabs-in-groups", <<>>, TRUE, settings)
              /\ store' = persistSettings(store, settings)
    /\ UNCHANGED <<now, tabs, used, state, alarms, evals, changes, last, args, result>>

OptionsInit ==
    /\ args = NoArgs
    /\ result = NoResult
    /\ now = 0
    /\ tabs = <<>>
    /\ used = {}
    /\ store \in InitStores
    /\ state = loadState(store)
    /\ alarms = {}
    /\ evals = <<>>
    /\ changes = <<>>
    /\ last = NoStep
    /\ page = OpenPage(store)

OptionsNext ==
    \/ MinInactiveMinutesChanged
    \/ MinTabsCountChanged
    \/ MaxHistorySizeChanged
    \/ ClearHistoryOnExitChanged
    \/ ExcludeTabsInGroupsChanged

SpecOptions == OptionsInit /\ [][OptionsNext]_vars

\* an edit that is not a number, or a number out of the field's range
Digitless(str) == str = <<>> \/ str[1] \notin {"0", "1", "2", "-"}
BelowRange(field, str) ==
    \/ str = <<"-", "1">>
    \/ field = "min-tabs-count" /\ str \in {<<"0">>, <<"0", ".", "5">>}

----------------------------------------------------------------------------
(* loadState on its own: Init draws what the store holds, Load applies     *)
(* loadState to it.                                                        *)

SettingsFields ==
    {"minInactiveMilliseconds", "minTabsCount", "maxHistorySize",
     "clearHistoryOnExit", "excludeTabsInGroups"}

\* settings that differ from the defaults in every field
StoredSettings == Settings(1, 1, 2, FALSE, TRUE)

\* settings stored with some of their fields, by a version with or without
\* saveClosedPages
LoadSettings ==
    {Restrict(StoredSettings, fields) : fields \in SUBSET SettingsFields}
    \cup {("saveClosedPages" :> b) @@ Restrict(StoredSettings, fields) :
             b \in BOOLEAN, fields \in SUBSET SettingsFields}

\* nothing stored, a store that cannot be read, settings alone, settings
\* and a history
LoadStores ==
    {<<>>, ReadError}
    \cup {[settings |-> s] : s \in LoadSettings}
    \cup {[settings |-> s, history |-> <<ClosedPageInfo(TabContent(1))>>] :
             s \in LoadSettings}

NotLoaded == [loaded |-> FALSE]

LoadInit ==
    /\ store \in LoadStores
    /\ state = NotLoaded
    /\ now = 0
    /\ tabs = <<>>
    /\ used = {}
    /\ alarms = {}
    /\ evals = <<>>
    /\ changes = <<>>
    /\ last = NoStep
    /\ args = NoArgs
    /\ result = NoResult
    /\ page = NoPage

Load ==
    /\ state = NotLoaded
    /\ state' = loadState(store)
    /\ UNCHANGED <<now, tabs, used, store, alarms, evals, changes, last, args, result,
                   page>>

LoadNext == Load

SpecLoad == LoadInit /\ [][LoadNext]_vars

\* the settings the store holds, if any
Stored ==
    IF store # ReadError /\ "settings" \in DOMAIN store THEN store.settings
    ELSE <<>>

\* the documented default of a field the stored settings lack, the legacy
\* saveClosedPages deciding maxHistorySize
Expected(field) ==
    IF field = "maxHistorySize" /\ "saveClosedPages" \in DOMAIN Stored
    THEN (IF Stored.saveClosedPages THEN defaultSettings.maxHistorySize ELSE 0)
    ELSE IF field \in DOMAIN Stored THEN Stored[field]
    ELSE defaultSettings[field]

\* C15 (load defaulting): whatever the store holds, the loaded settings
\* have exactly the five fields of the settings, a stored field keeping its
\* value and a missing one taking its default; saveClosedPages gives
\* maxHistorySize its default (true) or 0 (false) and is removed.
C15_LoadDefaulting ==
    state # NotLoaded =>
        /\ DOMAIN state.settings = SettingsFields
        /\ \A field \in SettingsFields \cap DOMAIN state.settings :
              state.settings[field] = Expected(field)

----------------------------------------------------------------------------
(* Properties of the running script *)

WakePending == \E a \in alarms : a.name = "autoclose"

\* the last step was a listener that called autoclose(state)
Triggered == last.op \in {"click", "created", "alarm", "settings", "load"}

\* the last step was the then-callback of tabs.remove, or the handling of
\* a settings change
Accumulated == last.op = "remove" /\ ~last.rejected
SettingsHandled == last.op = "settings"

\* C5 (pause disables the engine): while state.paused is true, autoclose
\* closes no tab and no 'autoclose' alarm is pending, whatever evaluations
\* were in flight when the pause click was handled.
C5_Paused ==
    state.paused =>
        /\ ~WakePending
        /\ last.op = "remove" => last.closed = {}

\* C6 (evaluations are serialized): at most one autoclose evaluation is in
\* flight, from its tabs.query to the end of its tabs.remove callback.
C6_Serialized == Len(evals) <= 1

\* C7 (single wake timer): at most one wake alarm is pending in every
\* state, and when a listener has called autoclose no alarm is pending:
\* the earlier wake is cancelled before a new one is scheduled, and a wake
\* that has fired is not pending any more, so it starts one evaluation.
C7_SingleWake ==
    /\ Cardinality(alarms) <= 1
    /\ Triggered => alarms = {}

\* the second of two overlapping evaluations has just scheduled its wake,
\* after the first one scheduled its own
C7_Witness ==
    /\ last.op = "query"
    /\ Len(evals) = 2
    /\ \A i \in DOMAIN evals : evals[i].pc = "remove"
    /\ WakePending

\* C8 (history bound): after every tabs.remove callback of autoclose and
\* after every handling of a settings change, the history is not longer
\* than settings.maxHistorySize.
C8_HistoryBound ==
    (Accumulated \/ SettingsHandled) =>
        Len(state.history) <= state.settings.maxHistorySize

\* C9 (zero capacity means no history): in every state from the end of
\* loadState on, maxHistorySize = 0 implies that the history is empty.
C9_ZeroCapacity ==
    state.settings.maxHistorySize = 0 => state.history = <<>>

\* a tab whose record may be kept, stated on what the tab shows
MayBeRecorded(c) ==
    /\ c.title # Absent
    /\ c.url # Absent
    /\ c.url \notin {"about:blank", "chrome://newtab/", "file:///tmp/notes.txt"}
    /\ ~c.incognito

\* C10 (only saveable tabs enter the history): every record of the history
\* is the record of a tab that has a title and a url, whose url has none of
\* the schemes chrome:, javascript:, data:, file:, about:, and that is not
\* incognito; no other tab's record is in the history.
C10_OnlySaveable ==
    \A i \in DOMAIN state.history :
        /\ \E id \in TabIds : state.history[i] = ClosedPageInfo(TabContent(id))
        /\ \A id \in TabIds :
              state.history[i] = ClosedPageInfo(TabContent(id))
                  => MayBeRecorded(TabContent(id))

\* autoclose has just closed the private tab while the history is kept: the
\* history holds the web pages closed before and not the private page
C10_Witness ==
    /\ Accumulated
    /\ 3 \in last.closed
    /\ state.settings.maxHistorySize > 0
    /\ state.history # <<>>

\* C11 (clearHistoryOnExit keeps the history out of the store): no step
\* writes a history to browser.storage.local while the settings the script
\* runs with have clearHistoryOnExit true, and when a settings change to
\* clearHistoryOnExit = true has been handled the store has no 'history'
\* key, and gets none for as long as the setting stays true, whatever
\* evaluations are in flight.
C11_NotPersisted ==
    [][/\ state'.settings.clearHistoryOnExit = TRUE => ~last'.wrote
       /\ (last'.op = "settings" /\ state'.settings.clearHistoryOnExit = TRUE)
              => "history" \notin DOMAIN store'
       /\ (state.settings.clearHistoryOnExit = TRUE
              /\ state'.settings.clearHistoryOnExit = TRUE
              /\ "history" \notin DOMAIN store)
              => "history" \notin DOMAIN store']_vars

\* a settings change has just been handled with clearHistoryOnExit true
\* while the script holds a history in memory and an evaluation that is
\* about to close tabs is in flight: the store has no history
C11_Witness ==
    /\ SettingsHandled
    /\ state.settings.clearHistoryOnExit = TRUE
    /\ state.history # <<>>
    /\ \E i \in DOMAIN evals : evals[i].pc = "remove" /\ evals[i].toClose # <<>>
    /\ "history" \notin DOMAIN store

\* the record of tab id is in the history h
Recorded(id, h) == \E i \in DOMAIN h : h[i] = ClosedPageInfo(TabContent(id))

\* C12 (a failed tab removal does not lose history): when tabs.remove of an
\* evaluation fails for some tab, the tabs it did close are in the history
\* afterwards if they are saveable and the capacity allows, and the alarms
\* are as the evaluation left them.
C12_FailedRemove ==
    [][(last'.op = "remove" /\ last'.rejected) =>
          /\ alarms' = alarms
          /\ \A id \in last'.closed :
                (MayBeRecorded(TabContent(id))
                    /\ Cardinality(last'.closed) <= state'.settings.maxHistorySize)
                    => Recorded(id, state'.history)]_vars

\* the records of the tabs of a close-set that may be recorded, in its order
Records(toClose) ==
    LET Kept(tab) == MayBeRecorded(TabContent(tab.id))
        kept == SelectSeq(toClose, Kept)
    IN  [i \in DOMAIN kept |-> ClosedPageInfo(TabContent(kept[i].id))]

\* the first n entries of h
Take(h, n) == [i \in 1..Min(n, Len(h)) |-> h[i]]

\* C17 (history accumulation order): when the tabs.remove callback of an
\* evaluation runs with maxHistorySize > 0, the new history is the records
\* of the saveable tabs of its close-set, in close-set order, followed by
\* the old history, cut to the first maxHistorySize entries.
C17_Accumulation ==
    [][(last'.op = "remove" /\ ~last'.rejected /\ evals # <<>>
            /\ state.settings.maxHistorySize > 0)
          => state'.history =
                 Take(Records(Head(evals).toClose) \o state.history,
                      state.settings.maxHistorySize)]_vars

\* tab 2 has just been closed after tab 1 was, by two evaluations: its
\* record is in front of the record of tab 1
C17_Witness ==
    /\ Accumulated
    /\ last.closed = {2}
    /\ state.history = <<ClosedPageInfo(TabContent(2)), ClosedPageInfo(TabContent(1))>>

\* C18 (a scheduled wake is useful): the evaluation started by the wake
\* alarm finds a tab to close, and closes at least one tab.  (An alarm
\* only goes off when no listener has run since it was scheduled: every
\* listener clears it.)
C18_UsefulWake ==
    [][/\ (last'.op = "query" /\ evals # <<>> /\ evals[FirstQuery].wake
              /\ \A i \in DOMAIN evals : i # FirstQuery => evals[i].pc # "query")
            => evals'[FirstQuery].toClose # <<>>
       /\ (last'.op = "remove" /\ evals # <<>> /\ Head(evals).wake)
            => last'.closed # {}]_vars

\* C19 (the floor holds at system level): when autoclose removes tabs, the
\* window had more than minTabsCount unpinned tabs before the removal (the
\* tabs of the running script are unpinned tabs of one window), whatever
\* the user did to the tabs since the evaluation's tabs.query.
C19_SystemFloor ==
    (last.op = "remove" /\ last.closed # {}) =>
        Len(tabs) + Cardinality(last.closed) > state.settings.minTabsCount

\* the window is down to minTabsCount tabs, or has no tab left to close (the
\* tabs of the running script are all candidates), and no wake is pending
Settled ==
    /\ Len(tabs) <= state.settings.minTabsCount \/ tabs = <<>>
    /\ ~WakePending

\* C20 (eventual closure): once the user has stopped opening and closing
\* tabs, with the browser answering, time passing and due alarms going
\* off, the evaluations and wake alarms reach and keep a state where the
\* window has at most minTabsCount unpinned tabs or no candidate left, and
\* no wake alarm is pending.
C20_EventualClosure == <>[]Settled

====
